---- MODULE Spec2Model ----
(***************************************************************************)
(* A model of rime_rs: the quanpin segmenter (rime_pinyin), the TSV        *)
(* dictionary (rime_dict) and the core engine, translator, filter,         *)
(* context, processor chain and session (rime_core).                       *)
(*                                                                         *)
(* Strings are sequences of one-character strings; Rust's 0-based          *)
(* half-open index ranges [start, end) are kept as they are and mapped     *)
(* to 1-based sequences only where a sequence is indexed.                  *)
(***************************************************************************)
EXTENDS Integers, Sequences, FiniteSets, TLC

(***************************************************************************)
(* Bounds of the model.                                                    *)
(***************************************************************************)
\* longest raw_input a session is driven to
MaxRaw == 3
\* largest index used in a Select(i) event
MaxSelect == 1

(***************************************************************************)
(* Characters.                                                             *)
(***************************************************************************)
Apostrophe == "'"
Space_ == " "
LowerLetters == {"a", "n"}
UpperLetters == {"A"}
\* characters a front-end may send in Char(c)
InputChars == LowerLetters \cup UpperLetters \cup {Apostrophe, "1"}

\* char::to_ascii_lowercase
ToAsciiLowercase(c) == IF c = "A" THEN "a" ELSE c
\* char::is_ascii_alphabetic
IsAsciiAlphabetic(c) == c \in LowerLetters \cup UpperLetters
\* u8::is_ascii_lowercase
IsAsciiLowercase(c) == c \in LowerLetters

\* the code point of a character (the order Rust's str comparison uses);
\* the dictionary texts are single Han characters named by their code point
Rank(c) ==
    CASE c = " " -> 32
      [] c = "'" -> 39
      [] c = "1" -> 49
      [] c = "A" -> 65
      [] c = "a" -> 97
      [] c = "n" -> 110
      [] c = "U5357" -> 21335
      [] c = "U554A" -> 21834
      [] c = "U55EF" -> 21999
      [] c = "U5A1C" -> 23068
      [] c = "U5B89" -> 23433
      [] c = "U90A3" -> 37027
      [] c = "U963F" -> 38463

Min(a, b) == IF a < b THEN a ELSE b
Max(a, b) == IF a > b THEN a ELSE b

SetMin(S) == CHOOSE x \in S : \A y \in S : x <= y

\* str::cmp: lexicographic by code point, a proper prefix is smaller
StrLess(s, t) ==
    LET m == Min(Len(s), Len(t))
        d == {k \in 1..m : s[k] # t[k]}
    IN  IF d = {} THEN Len(s) < Len(t)
        ELSE Rank(s[SetMin(d)]) < Rank(t[SetMin(d)])

\* str::starts_with
StartsWith(s, p) == Len(p) <= Len(s) /\ SubSeq(s, 1, Len(p)) = p

\* [String]::concat
RECURSIVE Concat(_)
Concat(ss) == IF ss = <<>> THEN <<>> ELSE Head(ss) \o Concat(Tail(ss))

\* [String]::join(" ")
RECURSIVE JoinSpace(_)
JoinSpace(ss) ==
    IF ss = <<>> THEN <<>>
    ELSE IF Len(ss) = 1 THEN ss[1]
    ELSE ss[1] \o <<Space_>> \o JoinSpace(Tail(ss))

\* Vec::truncate
Truncate(s, n) == IF Len(s) <= n THEN s ELSE SubSeq(s, 1, n)

\* Iterator::filter over a sequence
RECURSIVE SelectSeqNot(_, _)
SelectSeqNot(s, c) ==
    IF s = <<>> THEN <<>>
    ELSE IF Head(s) = c THEN SelectSeqNot(Tail(s), c)
    ELSE <<Head(s)>> \o SelectSeqNot(Tail(s), c)

\* slice::sort_by: a stable sort; x is put behind every element that is not
\* greater than it, so equal elements keep their order
InsertBy(Less(_, _), x, t) ==
    LET p == Cardinality({k \in 1..Len(t) : ~Less(x, t[k])})
    IN  SubSeq(t, 1, p) \o <<x>> \o SubSeq(t, p + 1, Len(t))

SortBy(Less(_, _), s) ==
    LET f[k \in 0..Len(s)] ==
            IF k = 0 THEN <<>> ELSE InsertBy(Less, s[k], f[k - 1])
    IN  f[Len(s)]

(***************************************************************************)
(* rime_pinyin: QuanpinPreeditor.                                          *)
(***************************************************************************)
\* the generated syllable table SYLLABARY: (spelling, frequency)
SYLLABARY ==
    << [sy |-> <<"a">>, freq |-> 5],
       [sy |-> <<"a", "n">>, freq |-> 4],
       [sy |-> <<"n", "a">>, freq |-> 6],
       [sy |-> <<"n", "a", "n">>, freq |-> 3] >>

\* the comparator of QuanpinPreeditor::default: frequency descending, then
\* length descending, then spelling ascending
SyllableLess(a, b) ==
    \/ a.freq > b.freq
    \/ a.freq = b.freq /\ Len(a.sy) > Len(b.sy)
    \/ a.freq = b.freq /\ Len(a.sy) = Len(b.sy) /\ StrLess(a.sy, b.sy)

\* QuanpinPreeditor::default().syllables
Syllables == SortBy(SyllableLess, SYLLABARY)

\* Option<T>: None is <<>>, Some(v) is <<v>>
None == <<>>
Some(v) == <<v>>

\* the inner loop with a relaxation on `score >= best_score[j]`, which keeps
\* the latest of the entries of equal score
RECURSIVE RelaxSyllables_on_equal(_, _, _, _, _)
RelaxSyllables_on_equal(syl, chunk, i, k, st) ==
    IF k > Len(syl) THEN st
    ELSE LET sy == syl[k].sy
             rest == SubSeq(chunk, i + 1, Len(chunk))
         IN  IF ~StartsWith(rest, sy)
             THEN RelaxSyllables_on_equal(syl, chunk, i, k + 1, st)
             ELSE LET j == i + Len(sy)
                      score == st.best_score[i][1] + Len(sy) * 10000 + syl[k].freq
                  IN  IF st.best_score[j] = None \/ score >= st.best_score[j][1]
                      THEN RelaxSyllables_on_equal(syl, chunk, i, k + 1,
                             [best_score |-> [st.best_score EXCEPT ![j] = Some(score)],
                              prev |-> [st.prev EXCEPT ![j] = Some([p |-> i, sy |-> sy])]])
                      ELSE RelaxSyllables_on_equal(syl, chunk, i, k + 1, st)

\* the inner loop of segment_chunk at position i: every syllable, in table
\* order, that chunk[i..] starts with relaxes best_score[j] and prev[j]
RECURSIVE RelaxSyllables(_, _, _, _, _)
RelaxSyllables(syl, chunk, i, k, st) ==
    IF k > Len(syl) THEN st
    ELSE LET sy == syl[k].sy
             rest == SubSeq(chunk, i + 1, Len(chunk))
         IN  IF ~StartsWith(rest, sy)
             THEN RelaxSyllables(syl, chunk, i, k + 1, st)
             ELSE LET j == i + Len(sy)
                      score == st.best_score[i][1] + Len(sy) * 10000 + syl[k].freq
                  IN  IF st.best_score[j] = None \/ score > st.best_score[j][1]
                      THEN RelaxSyllables(syl, chunk, i, k + 1,
                             [best_score |-> [st.best_score EXCEPT ![j] = Some(score)],
                              prev |-> [st.prev EXCEPT ![j] = Some([p |-> i, sy |-> sy])]])
                      ELSE RelaxSyllables(syl, chunk, i, k + 1, st)

\* the outer loop of segment_chunk: positions 0..n-1 with a defined score
RECURSIVE ForwardDP(_, _, _, _)
ForwardDP(syl, chunk, i, st) ==
    IF i >= Len(chunk) THEN st
    ELSE IF st.best_score[i] = None THEN ForwardDP(syl, chunk, i + 1, st)
    ELSE ForwardDP(syl, chunk, i + 1, RelaxSyllables(syl, chunk, i, 1, st))

\* the backtracking loop without the final reverse
RECURSIVE Backtrack_no_reverse(_, _, _)
Backtrack_no_reverse(prev, cur, out) ==
    IF cur <= 0 THEN Some(out)
    ELSE IF prev[cur] = None THEN None
    ELSE Backtrack_no_reverse(prev, prev[cur][1].p, out \o <<prev[cur][1].sy>>)

\* the backtracking loop of segment_chunk, from cur down to 0; None when a
\* prev entry is missing
RECURSIVE Backtrack(_, _, _)
Backtrack(prev, cur, out) ==
    IF cur <= 0 THEN Some(out)
    ELSE IF prev[cur] = None THEN None
    ELSE Backtrack(prev, prev[cur][1].p, <<prev[cur][1].sy>> \o out)

\* best_score and prev as segment_chunk initialises them for a chunk of
\* n bytes
DPStart(n) ==
    [best_score |-> [j \in 0..n |-> IF j = 0 THEN Some(0) ELSE None],
     prev |-> [j \in 0..n |-> None]]

\* the end of segment_chunk: `best_score[n]?`, then the backtracking
DPResult(st, n) ==
    IF st.best_score[n] = None THEN None ELSE Backtrack(st.prev, n, <<>>)

\* QuanpinPreeditor::segment_chunk: Option<Vec<&str>>
segment_chunk(syl, chunk) ==
    IF chunk = <<>> THEN Some(<<>>)
    ELSE IF \E k \in 1..Len(chunk) : ~IsAsciiLowercase(chunk[k]) THEN None
    ELSE DPResult(ForwardDP(syl, chunk, 0, DPStart(Len(chunk))), Len(chunk))

\* str::split('\''): the chunks between apostrophes, empty ones included
RECURSIVE SplitApostrophe(_, _)
SplitApostrophe(s, cur) ==
    IF s = <<>> THEN <<cur>>
    ELSE IF Head(s) = Apostrophe THEN <<cur>> \o SplitApostrophe(Tail(s), <<>>)
    ELSE SplitApostrophe(Tail(s), Append(cur, Head(s)))

\* segment_chunk of every chunk, in order
SegmentEach(syl, chunks) == [k \in 1..Len(chunks) |-> segment_chunk(syl, chunks[k])]

\* the loop of QuanpinPreeditor::segment over the chunks' decompositions:
\* `?` gives up at the first chunk without one
RECURSIVE SegmentChunks(_, _)
SegmentChunks(segs, out) ==
    IF segs = <<>> THEN Some(out)
    ELSE IF Head(segs) = None THEN None
    ELSE SegmentChunks(Tail(segs), out \o Head(segs)[1])

\* QuanpinPreeditor::segment
segment_(syl, input) ==
    SegmentChunks(SegmentEach(syl, SplitApostrophe(input, <<>>)), <<>>)

\* str::to_ascii_lowercase
LowerStr(s) == [k \in 1..Len(s) |-> ToAsciiLowercase(s[k])]

\* the Analysis analyze returns for a segmentation
AnalysisOf(segments) == [segment |-> segments, preedit |-> JoinSpace(segments)]

\* one segment per letter
LetterSegments(letters) == [k \in 1..Len(letters) |-> <<letters[k]>>]

\* analyze that keeps the break markers among the letter segments
analyze_segmented_keep_breaks(input, segs) ==
    IF segs # None /\ segs[1] # <<>> THEN AnalysisOf(segs[1])
    ELSE IF /\ \A k \in 1..Len(input) :
                  IsAsciiLowercase(input[k]) \/ input[k] = Apostrophe
            /\ Len(input) >= 1
            /\ Len(input) <= 6
    THEN AnalysisOf(LetterSegments(input))
    ELSE [segment |-> <<>>, preedit |-> input]

\* analyze once the input is lowercased and segs is what segment returned:
\* the segmentation if there is a non-empty one, else one segment per letter
\* for 1 to 6 letters and apostrophes, else no segment
analyze_segmented(input, segs) ==
    IF segs # None /\ segs[1] # <<>> THEN AnalysisOf(segs[1])
    ELSE IF /\ \A k \in 1..Len(input) :
                  IsAsciiLowercase(input[k]) \/ input[k] = Apostrophe
            /\ Len(input) >= 1
            /\ Len(input) <= 6
    THEN AnalysisOf(LetterSegments(SelectSeqNot(input, Apostrophe)))
    ELSE [segment |-> <<>>, preedit |-> input]

\* <QuanpinPreeditor as Analyzer>::analyze with the syllable table syl
analyze_with(syl, raw) ==
    IF raw = <<>> THEN [segment |-> <<>>, preedit |-> <<>>]
    ELSE analyze_segmented(LowerStr(raw), segment_(syl, LowerStr(raw)))

\* Engine::analyze, EngineFacade::analyze
analyze(raw) == analyze_with(Syllables, raw)

(***************************************************************************)
(* rime_dict: TsvDictionary.                                               *)
(***************************************************************************)
\* the rows of the loaded TSV file, in file order: text, key, weight
TsvRows ==
    << [text |-> <<"U963F">>, key |-> <<"a">>, weight |-> 50],
       [text |-> <<"U554A">>, key |-> <<"a">>, weight |-> 50],
       [text |-> <<"U5B89">>, key |-> <<"a", "n">>, weight |-> 40],
       [text |-> <<"U90A3">>, key |-> <<"n", "a">>, weight |-> 30],
       [text |-> <<"U5357">>, key |-> <<"n", "a", "n">>, weight |-> 20],
       [text |-> <<"U55EF">>, key |-> <<"n">>, weight |-> 10],
       [text |-> <<"U5A1C", "U5A1C">>, key |-> <<"n", "a", "n", "a">>, weight |-> 25] >>

\* the comparator from_tsv_str sorts both maps with: weight descending,
\* then text ascending
EntryLess(a, b) ==
    \/ a.weight > b.weight
    \/ a.weight = b.weight /\ StrLess(a.text, b.text)

PairLess(a, b) == EntryLess(a.entry, b.entry)

\* the rows of TsvRows for which Keep holds, in file order, as (key, entry)
RECURSIVE RowsWhere(_, _)
RowsWhere(Keep(_), k) ==
    IF k > Len(TsvRows) THEN <<>>
    ELSE LET r == TsvRows[k]
             rest == RowsWhere(Keep, k + 1)
         IN  IF Keep(r)
             THEN <<[key |-> r.key, entry |-> [text |-> r.text, weight |-> r.weight]]>> \o rest
             ELSE rest

\* the keys of the rows
TsvKeys == {TsvRows[k].key : k \in 1..Len(TsvRows)}

\* the first letter of every segment
FirstLetters(seg) == [k \in 1..Len(seg) |-> seg[k][1]]

\* the initials of a segmentation; None when it has no segment
SegmentInitials(seg) == IF seg = <<>> THEN None ELSE Some(FirstLetters(seg))

\* the initials from_tsv_str computes for a key: the first letter of each
\* segment of its analysis
InitialsOf(key) == SegmentInitials(analyze(key).segment)

\* the entries of a sequence of (key, entry) pairs
EntriesOf(pairs) == [k \in 1..Len(pairs) |-> pairs[k].entry]

\* TsvDictionary.map as from_tsv_str builds it: key -> the entries of the
\* key, sorted
TsvMap ==
    [key \in TsvKeys |->
        LET HasKey(r) == r.key = key
        IN  EntriesOf(SortBy(PairLess, RowsWhere(HasKey, 1)))]

\* the initials of every key of the rows
TsvKeyInitials == [key \in TsvKeys |-> InitialsOf(key)]

\* initials_map for the keys' initials ki: initials -> the (key, entry) pairs
\* of the keys with these initials, sorted
InitialsMapOf(ki) ==
    [initials \in {ki[key][1] : key \in {k \in DOMAIN ki : ki[k] # None}} |->
        LET HasInitials(r) == ki[r.key] = Some(initials)
        IN  SortBy(PairLess, RowsWhere(HasInitials, 1))]

\* TsvDictionary.initials_map as from_tsv_str builds it
TsvInitialsMap == InitialsMapOf(TsvKeyInitials)

\* BTreeMap::get, HashMap::get
Get(map, key) == IF key \in DOMAIN map THEN Some(map[key]) ELSE None

\* self.map.get(key)
MapGet(key) == Get(TsvMap, key)

\* self.initials_map.get(initials)
InitialsGet(initials) == Get(TsvInitialsMap, initials)

\* the values an `if let Some(v)` loop runs over: none for None
SomeOrEmpty(opt) == IF opt = None THEN <<>> ELSE opt[1]

\* the keys of TsvDictionary.map in BTreeMap order
MapKeysAsc ==
    LET f[S \in SUBSET TsvKeys] ==
            IF S = {} THEN <<>>
            ELSE LET m == CHOOSE a \in S : \A b \in S \ {a} : StrLess(a, b)
                 IN  <<m>> \o f[S \ {m}]
    IN  f[TsvKeys]

\* self.map.range(prefix..): the keys not smaller than prefix, ascending
MapRangeFrom(prefix) ==
    LET NotBefore(k) == ~StrLess(k, prefix) IN SelectSeq(MapKeysAsc, NotBefore)

\* the inner loop of prefix_candidates over the entries of one key; done is
\* set by the early return
RECURSIVE PushEntries(_, _, _, _, _, _, _)
PushEntries(key, entries, k, start, end, limit, out) ==
    IF k > Len(entries) THEN [out |-> out, done |-> FALSE]
    ELSE IF Len(out) + 1 >= limit
    THEN [out |-> Append(out, [text |-> entries[k].text,
                               comment |-> Some(key),
                               weight |-> entries[k].weight,
                               segment_start |-> start,
                               segment_end |-> end]),
          done |-> TRUE]
    ELSE PushEntries(key, entries, k + 1, start, end, limit,
                     Append(out, [text |-> entries[k].text,
                                  comment |-> Some(key),
                                  weight |-> entries[k].weight,
                                  segment_start |-> start,
                                  segment_end |-> end]))

\* the outer loop of prefix_candidates over the key range: it ends at the
\* early return and at the first key that does not start with prefix, and
\* skips the key equal to prefix
RECURSIVE PrefixLoop(_, _, _, _, _, _)
PrefixLoop(keys, prefix, start, end, limit, st) ==
    IF keys = <<>> \/ st.done THEN st
    ELSE IF ~StartsWith(Head(keys), prefix) THEN st
    ELSE IF Head(keys) = prefix
    THEN PrefixLoop(Tail(keys), prefix, start, end, limit, st)
    ELSE PrefixLoop(Tail(keys), prefix, start, end, limit,
                    PushEntries(Head(keys), SomeOrEmpty(MapGet(Head(keys))), 1,
                                start, end, limit, st.out))

\* TsvDictionary::prefix_candidates: the value of out afterwards
prefix_candidates(prefix, start, end, limit, out) ==
    IF prefix = <<>> \/ limit = 0 THEN out
    ELSE PrefixLoop(MapRangeFrom(prefix), prefix, start, end, limit,
                    [out |-> out, done |-> FALSE]).out

\* the candidates lookup_span pushes for the entries of the exact key
ExactCandidates(entries, start, end) ==
    [k \in 1..Len(entries) |->
        [text |-> entries[k].text,
         comment |-> None,
         weight |-> entries[k].weight,
         segment_start |-> start,
         segment_end |-> end]]

\* the candidates lookup_span pushes for the pairs of the initials
InitialsCandidates(pairs, start, end) ==
    [k \in 1..Len(pairs) |->
        [text |-> pairs[k].entry.text,
         comment |-> Some(pairs[k].key),
         weight |-> pairs[k].entry.weight,
         segment_start |-> start,
         segment_end |-> end]]

\* the test of lookup_span for single-letter segments
AllSingleLetters(segments) ==
    \A k \in 1..Len(segments) :
        Len(segments[k]) = 1 /\ IsAsciiLowercase(segments[k][1])

\* the second step of lookup_span: prefix completion, for the whole input
lookup_prefix(segments, start, end, limit, key, out) ==
    IF start = 0 /\ end = Len(segments) /\ Len(out) < limit
    THEN prefix_candidates(key, start, end, limit - Len(out), out)
    ELSE out

\* the third step of lookup_span: the initials query, for the whole input
\* of single letters when out is still empty
lookup_initials(segments, start, end, limit, out) ==
    IF out = <<>> /\ start = 0 /\ end = Len(segments) /\ AllSingleLetters(segments)
    THEN InitialsCandidates(
            Truncate(SomeOrEmpty(InitialsGet(Concat(segments))), limit), start, end)
    ELSE out

\* lookup_span from the key on
lookup_key(segments, start, end, limit, key) ==
    IF key = <<>> THEN <<>>
    ELSE lookup_initials(segments, start, end, limit,
            lookup_prefix(segments, start, end, limit, key,
                ExactCandidates(Truncate(SomeOrEmpty(MapGet(key)), limit), start, end)))

\* <TsvDictionary as Dictionary>::lookup_span
lookup_span(segments, start, end, limit0) ==
    IF start >= end \/ end > Len(segments) THEN <<>>
    ELSE lookup_key(segments, start, end, Max(limit0, 1),
                    Concat(SubSeq(segments, start + 1, end)))

(***************************************************************************)
(* rime_core::translator: DictTranslator.                                  *)
(***************************************************************************)
\* i32::MAX
I32Max == 2147483647

\* the comment of a composed candidate
ComposeComment == <<"c", "o", "m", "p", "o", "s", "e">>

\* An i64 is the pair [hi, lo] that stands for hi * 2^30 + lo with
\* 0 <= lo < 2^30: the sums of i32 weights leave the range of the integers
\* the model checker computes with.  The sums of a path stay far inside the
\* range of i64.
Limb == (I32Max \div 2) + 1

\* `as i64`, i64::from of an i32
I64Of(v) == [hi |-> v \div Limb, lo |-> v % Limb]

\* i64 addition
I64Add(a, b) ==
    [hi |-> a.hi + b.hi + ((a.lo + b.lo) \div Limb), lo |-> (a.lo + b.lo) % Limb]

\* i64 comparison
I64Less(a, b) == a.hi < b.hi \/ (a.hi = b.hi /\ a.lo < b.lo)

\* Ord::min on i64
I64Min(a, b) == IF I64Less(b, a) THEN b ELSE a

\* the comparator of the per-position beam sort: score descending
PathScoreLess(a, b) == I64Less(b.score, a.score)

\* the comparator of the final sort: score descending, then text ascending
PathFinalLess(a, b) ==
    \/ I64Less(b.score, a.score)
    \/ a.score = b.score /\ StrLess(a.text, b.text)

\* the two innermost loops of compose_sentence_candidates: every path of
\* cur_paths extended by every word, in that order
ExtendPaths(cur_paths, words, len_bonus) ==
    LET W == Len(words)
    IN  [k \in 1..(Len(cur_paths) * W) |->
            LET p == cur_paths[((k - 1) \div W) + 1]
                w == words[((k - 1) % W) + 1]
            IN  [text |-> p.text \o w.text,
                 score |-> I64Add(I64Add(p.score, I64Of(w.weight)), I64Of(len_bonus))]]

\* beams after the words of the span [i, j) extended cur_paths; an empty
\* words is skipped
ExtendBeam(beams, i, j, cur_paths, words) ==
    IF words = <<>> THEN beams
    ELSE [beams EXCEPT ![j] = @ \o ExtendPaths(cur_paths, words, (j - i) * 1000)]

\* the loop over j in (i, max_j] of compose_sentence_candidates
RECURSIVE BeamWords(_, _, _, _, _, _, _)
BeamWords(segments, i, j, max_j, cur_paths, per_span_limit, beams) ==
    IF j > max_j THEN beams
    ELSE BeamWords(segments, i, j + 1, max_j, cur_paths, per_span_limit,
            ExtendBeam(beams, i, j, cur_paths,
                       lookup_span(segments, i, j, Max(per_span_limit, 1))))

\* the body of the loop over i once beams[i] is sorted and truncated to
\* cur_paths
BeamFrom(segments, i, max_j, cur_paths, per_span_limit, beams) ==
    BeamWords(segments, i, i + 1, max_j, cur_paths, per_span_limit,
              [beams EXCEPT ![i] = cur_paths])

\* the loop over i in [start, end) of compose_sentence_candidates
RECURSIVE BeamPositions(_, _, _, _, _, _, _)
BeamPositions(segments, i, end, beam_k, max_word_length, per_span_limit, beams) ==
    IF i >= end THEN beams
    ELSE IF beams[i] = <<>>
    THEN BeamPositions(segments, i + 1, end, beam_k, max_word_length, per_span_limit, beams)
    ELSE BeamPositions(segments, i + 1, end, beam_k, max_word_length, per_span_limit,
            BeamFrom(segments, i, Min(i + Max(max_word_length, 1), end),
                     Truncate(SortBy(PathScoreLess, beams[i]), beam_k),
                     per_span_limit, beams))

\* the cast `as i32` of an i64: the low 32 bits, read as a signed number
AsI32(v) == (((v.hi + 2) % 4) - 2) * Limb + v.lo

\* beams as compose_sentence_candidates initialises it: the empty path at
\* start
BeamsStart(start, end) ==
    [k \in 0..end |-> IF k = start THEN <<[text |-> <<>>, score |-> I64Of(0)]>> ELSE <<>>]

\* the candidates compose_sentence_candidates makes of the final paths
ComposedCandidates(finals, start, end) ==
    [k \in 1..Len(finals) |->
        [text |-> finals[k].text,
         comment |-> Some(ComposeComment),
         weight |-> AsI32(I64Min(finals[k].score, I64Of(I32Max))),
         segment_start |-> start,
         segment_end |-> end]]

\* DictTranslator::compose_sentence_candidates
compose_sentence_candidates(segments, start, end, limit, max_word_length, per_span_limit) ==
    IF limit = 0 \/ start >= end \/ end > Len(segments) THEN <<>>
    ELSE ComposedCandidates(
            Truncate(SortBy(PathFinalLess,
                            BeamPositions(segments, start, end, Min(Max(limit, 8), 64),
                                          max_word_length, per_span_limit,
                                          BeamsStart(start, end))[end]),
                     limit),
            start, end)

\* the span a translator stage writes over the span of a dictionary result
WithSpan(cands, start, end) ==
    [k \in 1..Len(cands) |-> [cands[k] EXCEPT !.segment_start = start, !.segment_end = end]]

\* stage 0 of translate_with_composition: out after the direct lookup
translate_direct(segment, start, end, limit0) ==
    WithSpan(lookup_span(segment, start, end, Max(limit0, 1)), start, end)

\* the loop of stage 1 over j in (start, max_j]
RECURSIVE WordLoop(_, _, _, _, _, _)
WordLoop(segment, start, j, max_j, per_span_limit, out) ==
    IF j > max_j THEN out
    ELSE WordLoop(segment, start, j + 1, max_j, per_span_limit,
           out \o WithSpan(lookup_span(segment, start, j, Max(per_span_limit, 1)), start, j))

\* stage 1 of translate_with_composition: out after the word lookups
translate_words(segment, start, end, limit0, max_word_length, per_span_limit) ==
    WordLoop(segment, start, start + 1, Min(start + Max(max_word_length, 1), end),
             per_span_limit, translate_direct(segment, start, end, limit0))

\* stage 2 of translate_with_composition: out after the composition, which
\* runs when out is shorter than limit
translate_compose(segment, start, end, limit, max_word_length, per_span_limit, out) ==
    IF Len(out) < limit
    THEN out \o compose_sentence_candidates(segment, start, end, limit - Len(out),
                                            max_word_length, per_span_limit)
    ELSE out

\* DictTranslator::translate_with_composition
translate_with_composition(segment, start, end, limit0, max_word_length, per_span_limit) ==
    translate_compose(segment, start, end, Max(limit0, 1), max_word_length, per_span_limit,
        translate_words(segment, start, end, limit0, max_word_length, per_span_limit))

(***************************************************************************)
(* rime_core::filter: DedupSortTruncate.                                   *)
(***************************************************************************)
\* the comparator of DedupSortTruncate::apply: weight descending, then text
\* ascending
CandidateLess(a, b) ==
    \/ a.weight > b.weight
    \/ a.weight = b.weight /\ StrLess(a.text, b.text)

\* the predicate of dedup_by
SameTextSpan(a, b) ==
    /\ a.text = b.text
    /\ a.segment_start = b.segment_start
    /\ a.segment_end = b.segment_end

\* Vec::dedup_by: an element equal to the last kept one is dropped
RECURSIVE DedupBy(_, _)
DedupBy(s, out) ==
    IF s = <<>> THEN out
    ELSE IF out # <<>> /\ SameTextSpan(Head(s), out[Len(out)])
    THEN DedupBy(Tail(s), out)
    ELSE DedupBy(Tail(s), Append(out, Head(s)))

\* apply that leaves the candidates in the order they came in
apply_no_sort(limit, candidates) ==
    Truncate(DedupBy(candidates, <<>>), Max(limit, 1))

\* apply that does not truncate
apply_no_truncate(limit, candidates) ==
    DedupBy(SortBy(CandidateLess, candidates), <<>>)

\* <DedupSortTruncate as Filter>::apply
apply(limit, candidates) ==
    Truncate(DedupBy(SortBy(CandidateLess, candidates), <<>>), Max(limit, 1))

(***************************************************************************)
(* rime_core::engine: Engine.                                              *)
(***************************************************************************)
\* Engine::new
EngineNew == [candidate_limit |-> 9, max_word_length |-> 4, per_span_limit |-> 16]

\* candidate_limit that stores whatever it is given
set_candidate_limit_unchecked(engine, limit) == [engine EXCEPT !.candidate_limit = limit]

\* Engine::candidate_limit (the builder), limit a u8
set_candidate_limit(engine, limit) ==
    IF limit < 2 \/ limit > 9
    THEN [engine EXCEPT !.candidate_limit = 9]
    ELSE [engine EXCEPT !.candidate_limit = limit]

\* Engine::max_word_length (the builder), n a u8
set_max_word_length(engine, n) == [engine EXCEPT !.max_word_length = Max(n, 1)]

\* compose_from_segment that translates from the first segment on
compose_from_segment_whole(engine, segment, start, end) ==
    apply(engine.candidate_limit,
          translate_with_composition(segment, 0, end, engine.candidate_limit,
                                     engine.max_word_length, engine.per_span_limit))

\* Engine::compose_from_segment
compose_from_segment(engine, segment, start, end) ==
    apply(engine.candidate_limit,
          translate_with_composition(segment, start, end, engine.candidate_limit,
                                     engine.max_word_length, engine.per_span_limit))

\* Engine::compose_with_state; caret_opt is an Option<usize>
compose_with_state(engine, raw_input, analysis, confirm, caret_opt, confirm_text) ==
    LET segment == analysis.segment
        caret == Min(IF caret_opt = None THEN Len(segment) ELSE caret_opt[1], Len(segment))
        confirmed == Min(confirm, caret)
        candidate_list == IF segment = <<>> \/ confirmed >= caret THEN <<>>
                          ELSE compose_from_segment(engine, segment, confirmed, caret)
    IN  [raw_input |-> raw_input,
         preedit |-> analysis.preedit,
         segment |-> segment,
         caret |-> caret,
         confirm |-> confirmed,
         confirm_text |-> confirm_text,
         candidate_list |-> candidate_list]

(***************************************************************************)
(* rime_core::key_event: InputEvent and Action.                            *)
(***************************************************************************)
Char(c) == [type |-> "Char", ch |-> c, i |-> 0]
Backspace == [type |-> "Backspace", ch |-> "", i |-> 0]
Space == [type |-> "Space", ch |-> "", i |-> 0]
Enter == [type |-> "Enter", ch |-> "", i |-> 0]
Clear == [type |-> "Clear", ch |-> "", i |-> 0]
Select(i) == [type |-> "Select", ch |-> "", i |-> i]
Exit == [type |-> "Exit", ch |-> "", i |-> 0]
\* no event handled yet
NoEvent == [type |-> "None", ch |-> "", i |-> 0]

Commit(s) == [type |-> "Commit", text |-> s]

(***************************************************************************)
(* rime_core::context: Context.                                            *)
(***************************************************************************)
\* Context::default
ContextDefault ==
    [raw_input |-> <<>>,
     analysis |-> [segment |-> <<>>, preedit |-> <<>>],
     caret |-> 0,
     confirm |-> 0,
     confirm_text |-> <<>>]

\* reset that keeps the confirmed text
reset_keep_confirm_text(c) == [ContextDefault EXCEPT !.confirm_text = c.confirm_text]

\* Context::reset
reset(c) == ContextDefault

\* the first half of reanalyze without the update of caret
set_analysis_keep_caret(c, a) == [c EXCEPT !.analysis = a]

\* the first half of Context::reanalyze: analysis and caret follow the
\* analysis a of raw_input
set_analysis(c, a) == [c EXCEPT !.analysis = a, !.caret = Len(a.segment)]

\* the second half of Context::reanalyze: a confirm beyond caret is clamped
\* and the confirmed text dropped
clamp_confirm(c) ==
    IF c.confirm > c.caret
    THEN [c EXCEPT !.confirm = c.caret, !.confirm_text = <<>>]
    ELSE c

\* reanalyze without the clamp of confirm
reanalyze_no_clamp(c) == set_analysis(c, analyze(c.raw_input))

\* reanalyze that compares with >= where the code compares with >
reanalyze_clear_on_equal(c) ==
    LET clamp(c1) == IF c1.confirm >= c1.caret
                     THEN [c1 EXCEPT !.confirm = c1.caret, !.confirm_text = <<>>]
                     ELSE c1
    IN  clamp(set_analysis(c, analyze(c.raw_input)))

\* Context::reanalyze
reanalyze(c) == clamp_confirm(set_analysis(c, analyze(c.raw_input)))

\* Context::ui_state
ui_state(engine, c) ==
    compose_with_state(engine, c.raw_input, c.analysis, c.confirm, Some(c.caret),
                       c.confirm_text)

\* commit_on_enter that leaves the confirmed text out of the commit
commit_on_enter_raw_only(c) ==
    [ctx |-> reset(c),
     actions |-> IF c.raw_input # <<>> THEN <<Commit(c.raw_input)>> ELSE <<>>]

\* Context::commit_on_enter: the context afterwards and the returned actions
commit_on_enter(c) ==
    LET s == c.confirm_text \o c.raw_input
        actions == IF (c.raw_input # <<>> \/ c.confirm_text # <<>>) /\ s # <<>>
                   THEN <<Commit(s)>> ELSE <<>>
    IN  [ctx |-> reset(c), actions |-> actions]

\* Vec::get that hands out the last element for an index past the end
CandidateGetClamped(list, index) ==
    IF list = <<>> THEN None
    ELSE IF index < Len(list) THEN Some(list[index + 1]) ELSE Some(list[Len(list)])

\* Vec::get on the candidate list, index 0-based
CandidateGet(list, index) ==
    IF index < Len(list) THEN Some(list[index + 1]) ELSE None

\* the acceptance that overwrites confirm_text instead of appending to it
accept_candidate_overwrite(c, cand) ==
    LET c1 == [c EXCEPT !.confirm_text = cand.text, !.confirm = cand.segment_end]
    IN  IF c1.confirm = c1.caret
        THEN IF c1.confirm_text # <<>>
             THEN [ctx |-> [c1 EXCEPT !.confirm_text = <<>>],
                   actions |-> <<Commit(c1.confirm_text)>>]
             ELSE [ctx |-> reset(c1), actions |-> <<>>]
        ELSE [ctx |-> c1, actions |-> <<>>]

\* the acceptance that takes the candidate's text and leaves confirm where
\* it was
accept_candidate_keep_confirm(c, cand) ==
    [ctx |-> [c EXCEPT !.confirm_text = cand.text], actions |-> <<>>]

\* the tail of Context::select_candidate, once the candidate passed the
\* checks: confirm advances, and a full confirmation commits
accept_candidate(c, cand) ==
    LET c1 == [c EXCEPT !.confirm_text = @ \o cand.text, !.confirm = cand.segment_end]
    IN  IF c1.confirm = c1.caret
        THEN IF c1.confirm_text # <<>>
             THEN [ctx |-> [c1 EXCEPT !.confirm_text = <<>>],
                   actions |-> <<Commit(c1.confirm_text)>>]
             ELSE [ctx |-> reset(c1), actions |-> <<>>]
        ELSE [ctx |-> c1, actions |-> <<>>]

\* an early return of select_candidate: nothing changes, nothing is emitted
select_nothing(c) == [ctx |-> c, actions |-> <<>>, accepted |-> None]

\* the result of select_candidate for the accepted candidate got and the
\* outcome r of its acceptance
select_accepted(r, got) == [ctx |-> r.ctx, actions |-> r.actions, accepted |-> got]

\* select_candidate from the result got of candidate_list.get(index) on: the
\* checks of the candidate's span, then the acceptance
select_got(c, got) ==
    IF got = None THEN select_nothing(c)
    ELSE IF got[1].segment_start # c.confirm THEN select_nothing(c)
    ELSE IF got[1].segment_end <= got[1].segment_start \/ got[1].segment_end > c.caret
    THEN select_nothing(c)
    ELSE select_accepted(accept_candidate(c, got[1]), got)

\* Context::select_candidate: the context afterwards, the returned actions
\* and, for the record, the candidate that was accepted (None if none was)
select_candidate(engine, c, index) ==
    IF c.raw_input = <<>> \/ c.confirm >= c.caret THEN select_nothing(c)
    ELSE select_got(c, CandidateGet(ui_state(engine, c).candidate_list, index))

(***************************************************************************)
(* rime_core::processor: the processor chain.                              *)
(***************************************************************************)
Consume == "Consume"
Continue == "Continue"

\* String::pop
Pop(s) == IF s = <<>> THEN s ELSE SubSeq(s, 1, Len(s) - 1)

\* the editing processor that takes every character into raw_input
EditingProcess_any_char(engine, c, e) ==
    CASE e.type = "Char" ->
            [status |-> Consume, actions |-> <<>>, accepted |-> None,
             ctx |-> reanalyze([c EXCEPT !.raw_input = Append(@, ToAsciiLowercase(e.ch))])]
      [] e.type = "Backspace" ->
            [status |-> Consume, actions |-> <<>>, accepted |-> None,
             ctx |-> reanalyze([c EXCEPT !.raw_input = Pop(@)])]
      [] e.type = "Clear" ->
            [status |-> Consume, actions |-> <<>>, accepted |-> None, ctx |-> reset(c)]
      [] OTHER ->
            [status |-> Continue, actions |-> <<>>, accepted |-> None, ctx |-> c]

\* <EditingProcessor as Processor>::process
EditingProcess(engine, c, e) ==
    CASE e.type = "Char" ->
            [status |-> Consume, actions |-> <<>>, accepted |-> None,
             ctx |-> IF IsAsciiAlphabetic(e.ch) \/ e.ch = Apostrophe
                     THEN reanalyze([c EXCEPT !.raw_input = Append(@, ToAsciiLowercase(e.ch))])
                     ELSE c]
      [] e.type = "Backspace" ->
            [status |-> Consume, actions |-> <<>>, accepted |-> None,
             ctx |-> reanalyze([c EXCEPT !.raw_input = Pop(@)])]
      [] e.type = "Clear" ->
            [status |-> Consume, actions |-> <<>>, accepted |-> None, ctx |-> reset(c)]
      [] OTHER ->
            [status |-> Continue, actions |-> <<>>, accepted |-> None, ctx |-> c]

\* (ProcessStatus::Consume, out) for the outcome r of a context operation
Consumed(r) ==
    [status |-> Consume, actions |-> r.actions, accepted |-> r.accepted, ctx |-> r.ctx]

\* <SelectionProcessor as Processor>::process: Space selects candidate 0,
\* Select(i) candidate i
SelectionProcess(engine, c, e) ==
    IF e.type = "Space" \/ e.type = "Select"
    THEN Consumed(select_candidate(engine, c, IF e.type = "Space" THEN 0 ELSE e.i))
    ELSE [status |-> Continue, actions |-> <<>>, accepted |-> None, ctx |-> c]

\* <EnterCommitProcessor as Processor>::process
EnterCommitProcess(engine, c, e) ==
    CASE e.type = "Enter" ->
            LET r == commit_on_enter(c)
            IN  [status |-> Consume, actions |-> r.actions, accepted |-> None, ctx |-> r.ctx]
      [] OTHER ->
            [status |-> Continue, actions |-> <<>>, accepted |-> None, ctx |-> c]

(***************************************************************************)
(* rime_core::session: Session.                                            *)
(***************************************************************************)
\* the chain Session::new assembles
Processors == <<"Editing", "Selection", "EnterCommit">>

Process(name, engine, c, e) ==
    CASE name = "Editing" -> EditingProcess(engine, c, e)
      [] name = "Selection" -> SelectionProcess(engine, c, e)
      [] name = "EnterCommit" -> EnterCommitProcess(engine, c, e)

\* the loop of Session::handle over the processors, stopping at the first
\* Consume
RECURSIVE RunChain(_, _, _, _, _, _)
RECURSIVE RunProcessed(_, _, _, _, _, _)
RunChain(k, engine, c, e, actions, accepted) ==
    IF k > Len(Processors) THEN [ctx |-> c, actions |-> actions, accepted |-> accepted]
    ELSE RunProcessed(k, engine, e, actions, accepted, Process(Processors[k], engine, c, e))

\* the body of that loop once processor k returned r: its actions are
\* appended, and Consume ends the loop
RunProcessed(k, engine, e, actions, accepted, r) ==
    IF r.status = Consume
    THEN [ctx |-> r.ctx, actions |-> actions \o r.actions,
          accepted |-> IF r.accepted # None THEN r.accepted ELSE accepted]
    ELSE RunChain(k + 1, engine, r.ctx, e, actions \o r.actions,
                  IF r.accepted # None THEN r.accepted ELSE accepted)

\* the end of Session::handle: the snapshot of the context the chain left
Snapshot(engine, r) ==
    [ctx |-> r.ctx, ui |-> ui_state(engine, r.ctx), actions |-> r.actions,
     accepted |-> r.accepted]

\* Session::handle: the context afterwards, the returned snapshot and the
\* returned actions
handle(engine, c, e) == Snapshot(engine, RunChain(1, engine, c, e, <<>>, None))

(***************************************************************************)
(* The session as a state machine.                                         *)
(***************************************************************************)
VARIABLES
    engine,     \* Session.engine: the configuration of the Engine
    ctx,        \* Session.ctx: the Context
    ev,         \* the InputEvent of the last call of Session::handle
    actions,    \* the actions that call returned
    ui,         \* the UiState that call returned
    pre,        \* history: the Context that call started from
    run,        \* history: the selections since the context was last empty
    call        \* a direct call of a library function: its arguments and,
                \* once it returned, its result

vars == <<engine, ctx, ev, actions, ui, pre, run, call>>

\* no direct call of a library function
NoCall == [fn |-> "none"]

\* the arguments the front-end may configure the engine with
LimitInputs == {2, 10}
WordLengthInputs == {4}

SelectionEvents == {Space} \cup {Select(i) : i \in 0..MaxSelect}
EditEvents == {Backspace} \cup {Char(c) : c \in InputChars}

\* history of the current run of events since the context was last in the
\* empty state: phase is "typing" while only edits happened, "selecting"
\* after accepted selections that left segments open, "committed" after the
\* accepted selection that made confirm reach caret, "edited" once an edit
\* followed a selection; n counts the accepted selections, texts is the
\* concatenation of the accepted candidates' texts, last_end the segment_end
\* of the last accepted one and emitted the actions the selection events
\* returned
RunStart == [phase |-> "typing", n |-> 0, texts |-> <<>>, last_end |-> 0, emitted |-> <<>>]

RunEdited == [phase |-> "edited", n |-> 0, texts |-> <<>>, last_end |-> 0, emitted |-> <<>>]

RunAfter(r, e, res) ==
    IF res.ctx = ContextDefault THEN RunStart
    ELSE IF e \in SelectionEvents
    THEN IF r.phase = "edited" THEN r
         ELSE IF res.accepted = None
         THEN [r EXCEPT !.emitted = @ \o res.actions]
         ELSE [phase |-> IF res.ctx.confirm = res.ctx.caret THEN "committed" ELSE "selecting",
               n |-> r.n + 1,
               texts |-> r.texts \o res.accepted[1].text,
               last_end |-> res.accepted[1].segment_end,
               emitted |-> r.emitted \o res.actions]
    ELSE IF e \in EditEvents /\ res.ctx # ctx
    THEN IF r.phase = "typing" THEN r ELSE RunEdited
    ELSE r

\* Session::new(Engine::new(dict, analyzer).candidate_limit(l).max_word_length(n))
Init ==
    /\ \E l \in LimitInputs, n \in WordLengthInputs :
          engine = set_max_word_length(set_candidate_limit(EngineNew, l), n)
    /\ ctx = ContextDefault
    /\ ev = NoEvent
    /\ actions = <<>>
    /\ ui = ui_state(engine, ctx)
    /\ pre = ContextDefault
    /\ run = RunStart
    /\ call = NoCall

\* Session::handle(e): the context, the returned snapshot and actions, and
\* the history
Handled(e, res) ==
    /\ ctx' = res.ctx
    /\ ui' = res.ui
    /\ actions' = res.actions
    /\ pre' = ctx
    /\ run' = RunAfter(run, e, res)
    /\ UNCHANGED <<engine, call>>

Handle(e) == Handled(e, handle(engine, ctx, e))

HandleChar(c) ==
    /\ (IsAsciiAlphabetic(c) \/ c = Apostrophe) => Len(ctx.raw_input) < MaxRaw
    /\ ev' = Char(c)
    /\ Handle(Char(c))

HandleBackspace ==
    /\ ev' = Backspace
    /\ Handle(Backspace)

HandleSpace ==
    /\ ev' = Space
    /\ Handle(Space)

HandleSelect(i) ==
    /\ ev' = Select(i)
    /\ Handle(Select(i))

HandleEnter ==
    /\ ev' = Enter
    /\ Handle(Enter)

HandleClear ==
    /\ ev' = Clear
    /\ Handle(Clear)

HandleExit ==
    /\ ev' = Exit
    /\ Handle(Exit)

Next ==
    \/ \E c \in InputChars : HandleChar(c)
    \/ HandleBackspace
    \/ HandleSpace
    \/ \E i \in 0..MaxSelect : HandleSelect(i)
    \/ HandleEnter
    \/ HandleClear
    \/ HandleExit

Spec == Init /\ [][Next]_vars

(***************************************************************************)
(* Properties of the context and the session.                              *)
(***************************************************************************)
\* a Char event the editing processor accepts
IsValidChar(e) == e.type = "Char" /\ (IsAsciiAlphabetic(e.ch) \/ e.ch = Apostrophe)
\* the events that end in Context::reanalyze
IsReanalyzeEvent(e) == e = Backspace \/ IsValidChar(e)
\* the index a selection event selects
SelectedIndex(e) == IF e = Space THEN 0 ELSE e.i

\* C1: after any sequence of events the context satisfies
\* 0 <= confirm <= caret <= len(analysis.segment)
C1_ConfirmCaretSegment ==
    /\ 0 <= ctx.confirm
    /\ ctx.confirm <= ctx.caret
    /\ ctx.caret <= Len(ctx.analysis.segment)

\* an edit shrank the segmentation below the confirmed boundary and the
\* boundary was clamped
C1_Witness ==
    /\ IsReanalyzeEvent(ev)
    /\ pre.confirm > Len(ctx.analysis.segment)
    /\ ctx.confirm = ctx.caret
    /\ ctx.caret > 0

\* C2: a selection event that emits a Commit (confirm reached caret) leaves
\* the context fully reset
C2_FullCommitResets ==
    (ev \in SelectionEvents /\ actions # <<>>) => ctx = ContextDefault

\* C3: Enter emits exactly Commit(confirm_text ++ raw_input) when one of the
\* two is non-empty and nothing when both are empty, and leaves the context
\* empty
C3_EnterCommits ==
    ev = Enter =>
        /\ actions = IF pre.raw_input # <<>> \/ pre.confirm_text # <<>>
                     THEN <<Commit(pre.confirm_text \o pre.raw_input)>>
                     ELSE <<>>
        /\ ctx = ContextDefault

\* Enter committed a confirmed text followed by the raw input
C3_Witness ==
    /\ ev = Enter
    /\ pre.confirm_text # <<>>
    /\ pre.raw_input # <<>>
    /\ Len(actions) = 1
    /\ ctx = ContextDefault

\* C4: in a run of typing followed by selections only, an accepted selection
\* that leaves segments open appends the candidate's text to confirm_text,
\* moves confirm to its segment_end and emits nothing; the one that makes
\* confirm reach caret emits one Commit of the accepted texts in order, and
\* the selection events of the run emit nothing else
C4_SelectionRun ==
    /\ run.phase = "typing" => run.emitted = <<>>
    /\ run.phase = "selecting" =>
          /\ ctx.confirm_text = run.texts
          /\ ctx.confirm = run.last_end
          /\ run.emitted = <<>>
    /\ run.phase = "committed" => run.emitted = <<Commit(run.texts)>>
    /\ (run.phase \in {"typing", "selecting", "committed"} /\ ev \in SelectionEvents
        /\ actions # <<>>) =>
          /\ run.phase = "committed"
          /\ ctx # pre
          /\ actions = <<Commit(run.texts)>>

\* a run of three accepted selections ended in the Commit, and a further
\* selection event followed it
C4_Witness ==
    /\ run.phase = "committed"
    /\ run.n >= 2
    /\ ev \in SelectionEvents
    /\ ctx = pre

\* the cases in which select_candidate(index) is to do nothing on context c
\* with the candidate list list
NoOpCase(c, list, index) ==
    \/ c.raw_input = <<>>
    \/ c.confirm >= c.caret
    \/ index >= Len(list)
    \/ /\ index < Len(list)
       /\ \/ list[index + 1].segment_start # c.confirm
          \/ list[index + 1].segment_end <= list[index + 1].segment_start
          \/ list[index + 1].segment_end > c.caret

SelectIsNoOp(c, index) == NoOpCase(c, ui_state(engine, c).candidate_list, index)

\* C5: select_candidate returns no action and leaves the context unchanged
\* when raw_input is empty, confirm >= caret, the index is past the
\* candidate list or the candidate's span does not extend confirm
C5_SelectNoOp ==
    (ev \in SelectionEvents /\ SelectIsNoOp(pre, SelectedIndex(ev))) =>
        (ctx = pre /\ actions = <<>>)

\* Select(1) met an open span with a single candidate
C5_Witness ==
    /\ ev = Select(1)
    /\ pre.raw_input # <<>>
    /\ pre.confirm < pre.caret
    /\ Len(ui_state(engine, pre).candidate_list) = 1
    /\ ctx = pre

\* raw_input after the edit of event e
EditedRaw(raw, e) ==
    IF e = Backspace THEN Pop(raw) ELSE Append(raw, ToAsciiLowercase(e.ch))

\* the context is what reanalyze is to make of the last call's context and
\* the analysis a
ReanalyzedTo(a) ==
    /\ ctx.analysis = a
    /\ ctx.caret = Len(a.segment)
    /\ ctx.confirm = Min(pre.confirm, Len(a.segment))
    /\ ctx.confirm_text = IF pre.confirm > Len(a.segment) THEN <<>> ELSE pre.confirm_text

\* C6: reanalyze replaces analysis by analyze(raw_input), sets caret to the
\* new segment length and confirm to min(old confirm, new caret), clears
\* confirm_text exactly when the old confirm exceeds the new caret and
\* leaves raw_input as the edit made it
C6_ReanalyzeEffect ==
    IsReanalyzeEvent(ev) =>
        /\ ctx.raw_input = EditedRaw(pre.raw_input, ev)
        /\ ReanalyzedTo(analyze(EditedRaw(pre.raw_input, ev)))

\* an edit shrank the segmentation below the old confirm, which held
\* confirmed text: confirm was clamped and the text cleared
C6_Witness ==
    /\ IsReanalyzeEvent(ev)
    /\ pre.confirm_text # <<>>
    /\ pre.confirm > ctx.caret
    /\ ctx.caret > 0
    /\ ctx.confirm = ctx.caret
    /\ ctx.confirm_text = <<>>

\* C7: an edit that shrinks the segmentation so that the new caret equals
\* the old confirm, with confirmed text present, leaves confirm at the new
\* caret and confirm_text empty
C7_ShrinkToConfirmClears ==
    (/\ IsReanalyzeEvent(ev)
     /\ pre.confirm_text # <<>>
     /\ pre.confirm < pre.caret
     /\ ctx.caret = pre.confirm) =>
        (ctx.confirm = ctx.caret /\ ctx.confirm_text = <<>>)

\* C8: confirm_text is non-empty only with 0 < confirm < caret
C8_ConfirmTextMidConfirmation ==
    ctx.confirm_text # <<>> => (ctx.confirm > 0 /\ ctx.confirm < ctx.caret)

(***************************************************************************)
(* Properties of the engine and the translator.                            *)
(***************************************************************************)
\* C9: every candidate of a returned UiState covers only the open span:
\* it starts at confirm and ends in (confirm, caret], caret within the
\* segment; no candidates when the segment is empty or confirm = caret
C9_CandidatesCoverOpenSpan ==
    /\ ui.confirm = ctx.confirm
    /\ ui.caret <= Len(ui.segment)
    /\ \A k \in 1..Len(ui.candidate_list) :
          /\ ui.candidate_list[k].segment_start = ui.confirm
          /\ ui.confirm < ui.candidate_list[k].segment_end
          /\ ui.candidate_list[k].segment_end <= ui.caret
    /\ (ui.segment = <<>> \/ ui.confirm = ui.caret) => ui.candidate_list = <<>>

\* after a selection the snapshot offers a candidate that ends before caret
C9_Witness ==
    /\ ui.confirm > 0
    /\ \E k \in 1..Len(ui.candidate_list) :
          ui.candidate_list[k].segment_end < ui.caret

\* C10: the number of candidates translate has accumulated after the direct
\* lookup, after the word lookups and after the composition never exceeds
\* limit
C10_StagesWithinLimit ==
    (ctx.analysis.segment # <<>> /\ ctx.confirm < ctx.caret) =>
        LET limit == engine.candidate_limit
            seg == ctx.analysis.segment
        IN  /\ Len(translate_direct(seg, ctx.confirm, ctx.caret, limit)) <= limit
            /\ Len(translate_words(seg, ctx.confirm, ctx.caret, limit,
                                   engine.max_word_length, engine.per_span_limit)) <= limit
            /\ Len(translate_with_composition(seg, ctx.confirm, ctx.caret, limit,
                                   engine.max_word_length, engine.per_span_limit)) <= limit

(***************************************************************************)
(* Direct calls of the library: the arguments are drawn in the initial     *)
(* state, the step of a call puts the result next to them.  The session    *)
(* stays as Session::new left it.                                          *)
(***************************************************************************)
SessionVars == <<engine, ctx, ev, actions, ui, pre, run>>

\* Session::new(Engine::new(dict, analyzer))
SessionNew ==
    /\ engine = EngineNew
    /\ ctx = ContextDefault
    /\ ev = NoEvent
    /\ actions = <<>>
    /\ ui = ui_state(engine, ctx)
    /\ pre = ContextDefault
    /\ run = RunStart

\* the sequences over S of length at most n
SeqsUpTo(S, n) == UNION {[1..k -> S] : k \in 0..n}

\* a call returned
Returned(fn) == call.fn = fn /\ call.ret # None

(***************************************************************************)
(* rime_core::filter and the engine's use of it.                           *)
(***************************************************************************)
\* longest candidate list handed to Filter::apply
MaxCandidates == 3
\* longest raw input handed to Engine::compose
MaxComposeRaw == 3

\* the candidates the lists are made of: two texts, two weights, two spans
FilterCandidates ==
    {[text |-> <<t>>, comment |-> None, weight |-> w,
      segment_start |-> 0, segment_end |-> e] :
        t \in {"U554A", "U963F"}, w \in {10, 20}, e \in {1, 2}}

\* DedupSortTruncate.limit, a u8
FilterLimits == {0, 1, 2, 3}

\* DedupSortTruncate { limit }.apply(candidates)
ApplyCalls ==
    {[fn |-> "apply", limit |-> l, candidates |-> cs, ret |-> None] :
        l \in FilterLimits, cs \in SeqsUpTo(FilterCandidates, MaxCandidates)}

\* Engine::new(..).candidate_limit(limit).compose(raw_input)
ComposeCalls ==
    {[fn |-> "compose", limit |-> l, raw_input |-> raw, ret |-> None] :
        l \in {0, 1, 2, 3, 9, 10}, raw \in SeqsUpTo(LowerLetters \cup {Apostrophe}, MaxComposeRaw)}

\* Engine::compose
compose(e, raw_input) ==
    compose_with_state(e, raw_input, analyze(raw_input), 0, None, <<>>)

FilterInit ==
    /\ SessionNew
    /\ call \in ApplyCalls \cup ComposeCalls

Apply ==
    /\ call.fn = "apply"
    /\ call.ret = None
    /\ call' = [call EXCEPT !.ret = Some(apply(call.limit, call.candidates))]
    /\ UNCHANGED SessionVars

Compose ==
    /\ call.fn = "compose"
    /\ call.ret = None
    /\ call' = [call EXCEPT
                  !.ret = Some(compose(set_candidate_limit(EngineNew, call.limit),
                                       call.raw_input))]
    /\ UNCHANGED SessionVars

FilterNext == Apply \/ Compose

FilterSpec == FilterInit /\ [][FilterNext]_vars

\* two candidates of a list share (text, segment_start, segment_end)
HasSameTextSpan(list) ==
    \E i, j \in 1..Len(list) : i < j /\ SameTextSpan(list[i], list[j])

\* C11: the output of Filter.apply holds no two candidates with the same
\* (text, segment_start, segment_end), whatever the input list
C11_NoSameTextSpan ==
    Returned("apply") => ~HasSameTextSpan(call.ret[1])

\* a list is ordered by weight descending and, among equal weights, by text
\* ascending; its first candidate then has the maximum weight
Ranked(list) ==
    /\ \A k \in 1..(Len(list) - 1) :
          \/ list[k].weight > list[k + 1].weight
          \/ /\ list[k].weight = list[k + 1].weight
             /\ ~StrLess(list[k + 1].text, list[k].text)
    /\ \A k \in 1..Len(list) : list[1].weight >= list[k].weight

\* C12: the output of Filter.apply, and the candidate_list of a UiState the
\* engine composes, is ordered by weight descending, then text ascending,
\* so candidate 0 has the maximum weight
C12_OutputRanked ==
    /\ Returned("apply") => Ranked(call.ret[1])
    /\ Returned("compose") => Ranked(call.ret[1].candidate_list)

\* apply returned two candidates that came in the opposite order
C12_Witness ==
    /\ Returned("apply")
    /\ Len(call.ret[1]) = 2
    /\ call.candidates = <<call.ret[1][2], call.ret[1][1]>>
    /\ call.ret[1][1].weight > call.ret[1][2].weight

\* C13: the output of Filter.apply has at most max(limit, 1) candidates, and
\* the candidate_list of a UiState the engine composes has at most the
\* configured candidate_limit, which is at most 9
C13_OutputWithinLimit ==
    /\ Returned("apply") => Len(call.ret[1]) <= Max(call.limit, 1)
    /\ Returned("compose") =>
          /\ Len(call.ret[1].candidate_list)
                <= set_candidate_limit(EngineNew, call.limit).candidate_limit
          /\ set_candidate_limit(EngineNew, call.limit).candidate_limit <= 9

\* apply cut three distinct candidates down to two
C13_Witness ==
    /\ Returned("apply")
    /\ call.limit = 2
    /\ Len(call.candidates) = 3
    /\ ~HasSameTextSpan(call.candidates)
    /\ Len(call.ret[1]) = 2

(***************************************************************************)
(* rime_pinyin: direct calls of analyze.                                   *)
(***************************************************************************)
\* most spellings concatenated into an input
MaxSpellings == 3
\* longest input of letters handed to analyze
MaxInput == 7

\* the rows of table whose index is in I, in table order
RECURSIVE PickRows(_, _, _)
PickRows(table, I, k) ==
    IF k > Len(table) THEN <<>>
    ELSE IF k \in I THEN <<table[k]>> \o PickRows(table, I, k + 1)
    ELSE PickRows(table, I, k + 1)

\* the syllable tables of the vocabularies: QuanpinPreeditor::default over
\* every non-empty part of SYLLABARY
Vocabularies ==
    {SortBy(SyllableLess, PickRows(SYLLABARY, I, 1)) :
        I \in (SUBSET (1..Len(SYLLABARY))) \ {{}}}

\* the spellings of a syllable table
Spellings(syl) == {syl[k].sy : k \in 1..Len(syl)}

\* analyze of a concatenation of known spellings
AnalyzeSpellingCalls ==
    UNION {{[fn |-> "analyze", syllables |-> syl, spellings |-> Some(sp),
             input |-> Concat(sp), ret |-> None] :
               sp \in SeqsUpTo(Spellings(syl), MaxSpellings)} : syl \in Vocabularies}

\* analyze of any input of letters, with the default table
AnalyzeInputCalls ==
    {[fn |-> "analyze", syllables |-> Syllables, spellings |-> None,
      input |-> raw, ret |-> None] :
        raw \in SeqsUpTo(LowerLetters \cup UpperLetters, MaxInput)}

AnalyzerInit ==
    /\ SessionNew
    /\ call \in AnalyzeSpellingCalls \cup AnalyzeInputCalls

Analyze ==
    /\ call.fn = "analyze"
    /\ call.ret = None
    /\ call' = [call EXCEPT !.ret = Some(analyze_with(call.syllables, call.input))]
    /\ UNCHANGED SessionVars

AnalyzerNext == Analyze

AnalyzerSpec == AnalyzerInit /\ [][AnalyzerNext]_vars

\* the decompositions of s into spellings of sp
RECURSIVE Decompositions(_, _)
Decompositions(sp, s) ==
    IF s = <<>> THEN {<<>>}
    ELSE UNION {{<<p>> \o d : d \in Decompositions(sp, SubSeq(s, Len(p) + 1, Len(s)))} :
                  p \in {q \in sp : StartsWith(s, q)}}

\* the row of a spelling in a syllable table
IndexOf(syl, sy) == CHOOSE k \in 1..Len(syl) : syl[k].sy = sy

\* the score segment_chunk gives a decomposition
RECURSIVE ScoreOf(_, _)
ScoreOf(syl, d) ==
    IF d = <<>> THEN 0
    ELSE Len(Head(d)) * 10000 + syl[IndexOf(syl, Head(d))].freq + ScoreOf(syl, Tail(d))

\* the call analyzed a concatenation of known spellings
AnalyzedSpellings == Returned("analyze") /\ call.spellings # None

\* C14 as stated: analyze of the concatenation of known spellings s1..sk
\* returns exactly the tokens [s1, ..., sk], and preedit is the tokens
\* joined by single spaces
C14_RoundTripExact ==
    AnalyzedSpellings =>
        /\ call.ret[1].segment = call.spellings[1]
        /\ call.ret[1].preedit = JoinSpace(call.spellings[1])

\* C14: analyze of the concatenation of known spellings s1..sk returns a
\* decomposition of the input into known spellings, one of maximal score
\* among them, which is [s1, ..., sk] when the input has no other
\* decomposition; preedit is the returned tokens joined by single spaces
C14_RoundTripDecomposition ==
    AnalyzedSpellings =>
        /\ call.ret[1].segment \in Decompositions(Spellings(call.syllables), call.input)
        /\ \A d \in Decompositions(Spellings(call.syllables), call.input) :
              ScoreOf(call.syllables, d) <= ScoreOf(call.syllables, call.ret[1].segment)
        /\ Decompositions(Spellings(call.syllables), call.input) = {call.spellings[1]}
              => call.ret[1].segment = call.spellings[1]
        /\ call.ret[1].preedit = JoinSpace(call.ret[1].segment)

\* three spellings were recovered from an input that has several
\* decompositions
C14_Witness ==
    /\ AnalyzedSpellings
    /\ Len(call.spellings[1]) = 3
    /\ call.ret[1].segment = call.spellings[1]
    /\ Cardinality(Decompositions(Spellings(call.syllables), call.input)) > 1

\* the call analyzed an input of letters that has no decomposition into
\* syllables
AnalyzedUnparseable ==
    /\ Returned("analyze")
    /\ call.spellings = None
    /\ call.input # <<>>
    /\ Decompositions(Spellings(call.syllables), LowerStr(call.input)) = {}

\* the fallback for the inputs of 1 to 6 letters: one single-letter token
\* per character, preedit the letters joined by spaces
InitialsModeResult ==
    /\ call.ret[1].segment = LetterSegments(LowerStr(call.input))
    /\ call.ret[1].preedit = JoinSpace(LetterSegments(LowerStr(call.input)))

\* C15: for an input of letters without a decomposition, analyze
\* returns no token and preedit equal to the raw input when the input has
\* 7 letters or more, and one single-letter token per character when it has
\* 1 to 6
C15_FallbackRawPreedit ==
    AnalyzedUnparseable =>
        IF Len(call.input) >= 7
        THEN call.ret[1].segment = <<>> /\ call.ret[1].preedit = call.input
        ELSE InitialsModeResult

(***************************************************************************)
(* rime_core::engine: chains of configuration calls.                       *)
(***************************************************************************)
\* the u8 arguments of the builders: both ends of the range and both sides
\* of the limits 2 and 9
ConfigInputs == {0, 1, 2, 3, 8, 9, 10, 11, 254, 255}

\* engine.candidate_limit(n)
CandidateLimit(n) ==
    /\ engine' = set_candidate_limit(engine, n)
    /\ call' = [fn |-> "candidate_limit", n |-> n]
    /\ UNCHANGED <<ctx, ev, actions, ui, pre, run>>

\* engine.max_word_length(n)
MaxWordLength(n) ==
    /\ engine' = set_max_word_length(engine, n)
    /\ call' = [fn |-> "max_word_length", n |-> n]
    /\ UNCHANGED <<ctx, ev, actions, ui, pre, run>>

EngineInit ==
    /\ SessionNew
    /\ call = NoCall

EngineNext ==
    \/ \E n \in ConfigInputs : CandidateLimit(n)
    \/ \E n \in ConfigInputs : MaxWordLength(n)

EngineSpec == EngineInit /\ [][EngineNext]_vars

C17_ExitAndCharFrame ==
    /\ (ev = Exit \/ (ev.type = "Char" /\ ~IsValidChar(ev))) =>
          (ctx = pre /\ actions = <<>>)
    /\ IsValidChar(ev) =>
          /\ ctx.raw_input = Append(pre.raw_input, ToAsciiLowercase(ev.ch))
          /\ actions = <<>>

\* a digit arrived in the middle of a confirmation and changed nothing
C17_Witness ==
    /\ ev = Char("1")
    /\ pre.confirm_text # <<>>
    /\ pre.confirm < pre.caret
    /\ ctx = pre
    /\ actions = <<>>

\* C18: Clear yields the empty state and returns no action, whatever the
\* context held, confirmed text included; reset of the empty state is the
\* empty state
C18_ClearResets ==
    /\ ev = Clear => (ctx = ContextDefault /\ actions = <<>>)
    /\ reset(ContextDefault) = ContextDefault
    /\ reset(reset(pre)) = reset(pre)
    /\ ContextDefault.raw_input = <<>>
    /\ ContextDefault.analysis.segment = <<>>
    /\ ContextDefault.analysis.preedit = <<>>
    /\ ContextDefault.confirm_text = <<>>
    /\ ContextDefault.caret = 0
    /\ ContextDefault.confirm = 0

\* Clear discarded a confirmed text
C18_Witness ==
    /\ ev = Clear
    /\ pre.confirm_text # <<>>
    /\ ctx = ContextDefault
    /\ actions = <<>>

(***************************************************************************)
(* Properties of the initials query through the engine.                    *)
(***************************************************************************)
\* the candidates of a list that cover the whole span [0, n)
FullSpan(list, n) ==
    LET Whole(c) == c.segment_start = 0 /\ c.segment_end = n IN SelectSeq(list, Whole)

\* the candidate c is the entry of one of the (key, entry) pairs and carries
\* that pair's key as its comment
FromInitials(c, pairs) ==
    \E k \in 1..Len(pairs) :
        /\ c.text = pairs[k].entry.text
        /\ c.weight = pairs[k].entry.weight
        /\ c.comment = Some(pairs[k].key)

\* the UiState u was composed of an input segmented in initials mode whose
\* letters are no key of the dictionary but the initials of some keys
InitialsOnly(raw, u) ==
    /\ segment_(Syllables, LowerStr(raw)) = None
    /\ u.segment # <<>>
    /\ MapGet(Concat(u.segment)) = None
    /\ InitialsGet(Concat(u.segment)) # None

\* the full-span candidates of u are entries found by their initials,
\* commented with their keys, and there is one at least
InitialsAnswer(u) ==
    /\ FullSpan(u.candidate_list, Len(u.segment)) # <<>>
    /\ \A k \in 1..Len(FullSpan(u.candidate_list, Len(u.segment))) :
          FromInitials(FullSpan(u.candidate_list, Len(u.segment))[k],
                       InitialsGet(Concat(u.segment))[1])

\* C19: for an input segmented in initials mode whose letter string is no
\* key of the dictionary but the initials of some keys, the engine's
\* candidate list for the full span is non-empty and consists only of the
\* entries of those keys, each commented with its key
C19_InitialsCandidates ==
    (Returned("compose") /\ InitialsOnly(call.raw_input, call.ret[1])) =>
        InitialsAnswer(call.ret[1])

(***************************************************************************)
(* rime_core::translator: the scores of the beam search.                   *)
(***************************************************************************)
\* most words of a path
MaxWords == 2

\* the words lookup_span may return for a span: its length in segments, a
\* text and a weight
BeamWordSet ==
    {[len |-> n, word |-> [text |-> <<t>>, weight |-> w]] :
        n \in {1, 2}, t \in {"U554A", "U963F"}, w \in {10, 20}}

\* the segments a sequence of words covers
RECURSIVE SpanOf(_)
SpanOf(ws) == IF ws = <<>> THEN 0 ELSE Head(ws).len + SpanOf(Tail(ws))

\* the sum of the weights of a sequence of words
RECURSIVE WeightSum(_)
WeightSum(ws) == IF ws = <<>> THEN 0 ELSE Head(ws).word.weight + WeightSum(Tail(ws))

\* beams after the loops of compose_sentence_candidates went along the
\* words ws from position i: each word extends the paths of its start
\* position into the beam of its end position
RECURSIVE BeamAlong(_, _, _)
BeamAlong(beams, i, ws) ==
    IF ws = <<>> THEN beams
    ELSE BeamAlong(ExtendBeam(beams, i, i + Head(ws).len, beams[i], <<Head(ws).word>>),
                   i + Head(ws).len, Tail(ws))

\* the complete path the beam search builds of the words ws
PathOf(ws) == BeamAlong(BeamsStart(0, SpanOf(ws)), 0, ws)[SpanOf(ws)][1]

\* two sequences of words over the same span
BeamCalls ==
    {[fn |-> "beam", p |-> pq[1], q |-> pq[2], ret |-> None] :
        pq \in {wv \in (SeqsUpTo(BeamWordSet, MaxWords) \ {<<>>})
                       \X (SeqsUpTo(BeamWordSet, MaxWords) \ {<<>>}) :
                  SpanOf(wv[1]) = SpanOf(wv[2])}}

BeamInit ==
    /\ SessionNew
    /\ call \in BeamCalls

\* the two paths and the final sort of the beam that holds them
Beam ==
    /\ call.fn = "beam"
    /\ call.ret = None
    /\ call' = [call EXCEPT
                  !.ret = Some([p |-> PathOf(call.p),
                                q |-> PathOf(call.q),
                                finals |-> SortBy(PathFinalLess,
                                                  <<PathOf(call.q), PathOf(call.p)>>)])]
    /\ UNCHANGED SessionVars

BeamNext == Beam

BeamSpec == BeamInit /\ [][BeamNext]_vars

\* C20: of two complete paths over the same span whose word weights sum to
\* the same total, the one built of fewer, longer words has the strictly
\* higher final score and ranks above the other
C20_LongerWordsRankHigher ==
    (/\ Returned("beam")
     /\ Len(call.p) < Len(call.q)
     /\ WeightSum(call.p) = WeightSum(call.q)) =>
        /\ I64Less(call.ret[1].q.score, call.ret[1].p.score)
        /\ call.ret[1].finals[1] = call.ret[1].p

(***************************************************************************)
(* rime_pinyin: direct calls of segment_chunk over syllable tables.        *)
(***************************************************************************)
\* longest chunk handed to segment_chunk
MaxChunk == 4

\* the spellings the syllable tables are made of: "an", "na" and "nan" are
\* concatenations of shorter ones
TableSpellings ==
    << <<"a">>, <<"n">>, <<"a", "n">>, <<"n", "a">>, <<"n", "a", "n">> >>

\* the frequencies of the rows
Frequencies == {1, 2, 3}

\* the rows of a generated table: spelling k with frequency f[k], left out
\* when f[k] = 0
RECURSIVE TableRows(_, _)
TableRows(f, k) ==
    IF k > Len(TableSpellings) THEN <<>>
    ELSE IF f[k] = 0 THEN TableRows(f, k + 1)
    ELSE <<[sy |-> TableSpellings[k], freq |-> f[k]]>> \o TableRows(f, k + 1)

\* QuanpinPreeditor::default().syllables for every such table
SegmentTables ==
    {SortBy(SyllableLess, TableRows(f, 1)) :
        f \in [1..Len(TableSpellings) -> Frequencies \cup {0}]}

\* preeditor.segment_chunk(chunk)
SegmentChunkCalls ==
    {[fn |-> "segment_chunk", syllables |-> syl, chunk |-> c, ret |-> None] :
        syl \in SegmentTables, c \in SeqsUpTo(LowerLetters, MaxChunk)}

SegmenterInit ==
    /\ SessionNew
    /\ call \in SegmentChunkCalls

SegmentChunk ==
    /\ call.fn = "segment_chunk"
    /\ call.ret = None
    /\ call' = [call EXCEPT !.ret = Some(segment_chunk(call.syllables, call.chunk))]
    /\ UNCHANGED SessionVars

SegmenterNext == SegmentChunk

SegmenterSpec == SegmenterInit /\ [][SegmenterNext]_vars

\* the decompositions of s into two or more spellings of sp
Splits(sp, s) == {d \in Decompositions(sp, s) : Len(d) >= 2}

\* C21: for a chunk that is a spelling of the table and also the
\* concatenation of two or more shorter spellings of it, segment_chunk
\* returns the single long spelling, not a split
C21_LongSyllableFirst ==
    (/\ Returned("segment_chunk")
     /\ call.chunk \in Spellings(call.syllables)
     /\ Splits(Spellings(call.syllables), call.chunk) # {}) =>
        call.ret[1] = Some(<<call.chunk>>)

\* the greatest score segment_chunk gives a decomposition of s
BestScore(syl, s) ==
    CHOOSE m \in {ScoreOf(syl, d) : d \in Decompositions(Spellings(syl), s)} :
        \A d \in Decompositions(Spellings(syl), s) : ScoreOf(syl, d) <= m

\* the positions i from which one spelling reaches position j with the
\* greatest score of chunk[0..j): chunk[0..i) has a decomposition and the
\* greatest score of it plus the score of chunk[i..j) is that of chunk[0..j)
BestStarts(syl, chunk, j) ==
    {i \in 0..(j - 1) :
        /\ SubSeq(chunk, i + 1, j) \in Spellings(syl)
        /\ Decompositions(Spellings(syl), SubSeq(chunk, 1, i)) # {}
        /\ BestScore(syl, SubSeq(chunk, 1, i)) + ScoreOf(syl, <<SubSeq(chunk, i + 1, j)>>)
              = BestScore(syl, SubSeq(chunk, 1, j))}

\* the position behind the first k tokens of d
TokenEnd(d, k) == Len(Concat(SubSeq(d, 1, k)))

\* every token of d starts at the lowest of the best start positions of its
\* end position
EarliestKept(syl, chunk, d) ==
    \A k \in 1..Len(d) :
        TokenEnd(d, k - 1) = SetMin(BestStarts(syl, chunk, TokenEnd(d, k)))

\* d is a decomposition of chunk of the greatest score
BestDecomposition(syl, chunk, d) ==
    /\ d \in Decompositions(Spellings(syl), chunk)
    /\ ScoreOf(syl, d) = BestScore(syl, chunk)

\* C22: for a chunk of lowercase letters that has a decomposition into
\* spellings of the table, segment_chunk returns a decomposition whose score,
\* the sum of len * 10000 + frequency over its tokens, is the greatest among
\* all decompositions; where several entries reach a position with that
\* score, the first evaluated, the one of the lowest start position, is kept
C22_BestScoreEarliestKept ==
    (/\ Returned("segment_chunk")
     /\ Decompositions(Spellings(call.syllables), call.chunk) # {}) =>
        /\ call.ret[1] # None
        /\ BestDecomposition(call.syllables, call.chunk, call.ret[1][1])
        /\ EarliestKept(call.syllables, call.chunk, call.ret[1][1])

\* "nan" came back whole from a table in which the three other
\* decompositions of it have the same score
C22_Witness ==
    /\ Returned("segment_chunk")
    /\ call.chunk = <<"n", "a", "n">>
    /\ call.ret[1] = Some(<<call.chunk>>)
    /\ Cardinality(Decompositions(Spellings(call.syllables), call.chunk)) = 4
    /\ \A d \in Decompositions(Spellings(call.syllables), call.chunk) :
          ScoreOf(call.syllables, d) = BestScore(call.syllables, call.chunk)

(***************************************************************************)
(* rime_pinyin: direct calls of analyze with break markers.                *)
(***************************************************************************)
\* longest input with break markers handed to analyze
MaxBreakInput == 7

\* analyze of any input of letters and apostrophes, with the default table
AnalyzeBreakCalls ==
    {[fn |-> "analyze", syllables |-> Syllables, spellings |-> None,
      input |-> raw, ret |-> None] :
        raw \in SeqsUpTo(LowerLetters \cup UpperLetters \cup {Apostrophe}, MaxBreakInput)}

BreakInit ==
    /\ SessionNew
    /\ call \in AnalyzeBreakCalls

BreakNext == Analyze

BreakSpec == BreakInit /\ [][BreakNext]_vars

\* the chunks between the break markers of the lowercased input
Chunks(raw) == SplitApostrophe(LowerStr(raw), <<>>)

\* every chunk has a decomposition into spellings (the empty chunk has the
\* empty one)
AllChunksParse(syl, raw) ==
    \A k \in 1..Len(Chunks(raw)) : Decompositions(Spellings(syl), Chunks(raw)[k]) # {}

\* the segmentations segment_chunk gives the chunks, one after the other
RECURSIVE ChunkTokens(_, _)
ChunkTokens(syl, chunks) ==
    IF chunks = <<>> THEN <<>>
    ELSE segment_chunk(syl, Head(chunks))[1] \o ChunkTokens(syl, Tail(chunks))

\* the numbers of letters in front of the break markers of the input
BreakPositions(raw) ==
    {Len(SelectSeqNot(SubSeq(raw, 1, k), Apostrophe)) :
        k \in {i \in 1..Len(raw) : raw[i] = Apostrophe}}

\* the positions between the tokens of d, both ends included
TokenEnds(d) == {TokenEnd(d, k) : k \in 0..Len(d)}

\* the character c occurs in the string s
Occurs(c, s) == \E k \in 1..Len(s) : s[k] = c

\* C23: when every chunk between apostrophes has a decomposition, analyze
\* returns the chunks' segmentations one after the other, so every break
\* marker falls between two tokens, and no apostrophe occurs in a token or
\* in preedit
C23_HardBreak ==
    (Returned("analyze") /\ AllChunksParse(call.syllables, call.input)) =>
        /\ call.ret[1].segment = ChunkTokens(call.syllables, Chunks(call.input))
        /\ BreakPositions(call.input) \subseteq TokenEnds(call.ret[1].segment)
        /\ \A k \in 1..Len(call.ret[1].segment) :
              ~Occurs(Apostrophe, call.ret[1].segment[k])
        /\ ~Occurs(Apostrophe, call.ret[1].preedit)

\* C29: whenever analyze returns tokens, in a full parse or in initials
\* mode, their concatenation is the lowercased input without its
\* apostrophes, and preedit is the tokens joined by single spaces
C29_TokensCoverInput ==
    (Returned("analyze") /\ call.ret[1].segment # <<>>) =>
        /\ Concat(call.ret[1].segment) = SelectSeqNot(LowerStr(call.input), Apostrophe)
        /\ call.ret[1].preedit = JoinSpace(call.ret[1].segment)

\* "n'A'n" has no parse and came back as the letters n, a, n
C29_Witness ==
    /\ Returned("analyze")
    /\ call.input = <<"n", "'", "A", "'", "n">>
    /\ call.ret[1].segment = << <<"n">>, <<"a">>, <<"n">> >>
    /\ call.ret[1].preedit = <<"n", " ", "a", " ", "n">>

(***************************************************************************)
(* rime_core::translator: the weights of the composed candidates.          *)
(***************************************************************************)
\* the words of the paths: a length in segments and an i32 weight from both
\* ends and the middle of the range
EmitWordSet ==
    {[len |-> n, word |-> [text |-> <<"U554A">>, weight |-> w]] :
        n \in {1, 2}, w \in {-I32Max - 1, -1, 0, I32Max}}

\* two sequences of words over the same span
EmitCalls ==
    {[fn |-> "emit", p |-> pq[1], q |-> pq[2], ret |-> None] :
        pq \in {wv \in (SeqsUpTo(EmitWordSet, MaxWords) \ {<<>>})
                       \X (SeqsUpTo(EmitWordSet, MaxWords) \ {<<>>}) :
                  SpanOf(wv[1]) = SpanOf(wv[2])}}

EmitInit ==
    /\ SessionNew
    /\ call \in EmitCalls

\* the final paths of a beam, sorted, with the candidates made of them
Emitted(finals, end) ==
    [finals |-> finals, candidates |-> ComposedCandidates(finals, 0, end)]

\* the end of compose_sentence_candidates for the beam that holds the two
\* paths
Emit ==
    /\ call.fn = "emit"
    /\ call.ret = None
    /\ call' = [call EXCEPT
                  !.ret = Some(Emitted(SortBy(PathFinalLess,
                                              <<PathOf(call.p), PathOf(call.q)>>),
                                       SpanOf(call.p)))]
    /\ UNCHANGED SessionVars

EmitNext == Emit

EmitSpec == EmitInit /\ [][EmitNext]_vars

\* the candidate c is what the claim makes of the path p over [0, end)
EmittedOf(c, p, end) ==
    /\ c.text = p.text
    /\ c.comment = Some(ComposeComment)
    /\ c.segment_start = 0
    /\ c.segment_end = end
    /\ I64Of(c.weight) = I64Min(p.score, I64Of(I32Max))

\* the weights of the candidates are in the order of the scores of the paths
OrderKept(finals, candidates) ==
    \A i, j \in 1..Len(finals) :
        I64Less(finals[i].score, finals[j].score) =>
            candidates[i].weight <= candidates[j].weight

\* C24: every candidate the composition emits has the comment "compose",
\* the span [start, end) and the weight min(score, 2^31 - 1) of its path's
\* 64-bit score, so the 32-bit weights keep the order of the scores, also
\* for scores below -2^31
C24_WeightIsClampedScore ==
    Returned("emit") =>
        /\ Len(call.ret[1].candidates) = Len(call.ret[1].finals)
        /\ \A k \in 1..Len(call.ret[1].finals) :
              EmittedOf(call.ret[1].candidates[k], call.ret[1].finals[k], SpanOf(call.p))
        /\ OrderKept(call.ret[1].finals, call.ret[1].candidates)

(***************************************************************************)
(* Properties of the events that follow a selection.                       *)
(***************************************************************************)
\* the actions hold a Commit
HasCommit(as) == \E k \in 1..Len(as) : as[k].type = "Commit"

\* C25: the Enter event that comes right after a Space or Select event that
\* emitted a Commit emits no Commit
C25_NoCommitAfterCommit ==
    [][(ev \in SelectionEvents /\ HasCommit(actions) /\ ev' = Enter)
          => ~HasCommit(actions')]_vars

\* the first n tokens of the context c are the first n tokens of d
SameFirstTokens(c, d, n) ==
    /\ Len(c.analysis.segment) >= n
    /\ Len(d.analysis.segment) >= n
    /\ SubSeq(c.analysis.segment, 1, n) = SubSeq(d.analysis.segment, 1, n)

\* C26: the tokens in front of confirm stay the tokens the confirmed text
\* was selected for: an edit (Char or Backspace) of a context with confirm > 0
\* and a confirmed text either leaves the first confirm tokens as they were or
\* discards confirm_text and resets confirm
C26_ConfirmedTokensKept ==
    (IsReanalyzeEvent(ev) /\ pre.confirm > 0 /\ pre.confirm_text # <<>>) =>
        \/ SameFirstTokens(ctx, pre, pre.confirm)
        \/ ctx.confirm_text = <<>> /\ ctx.confirm \in {0, ctx.caret}

(***************************************************************************)
(* Invariants of the context between events.                               *)
(***************************************************************************)
\* C27: between events, analysis is analyze(raw_input) and caret is the
\* number of its tokens; an empty raw_input comes with no token, caret = 0,
\* confirm = 0 and no confirmed text
C27_AnalysisFollowsInput ==
    /\ ctx.analysis = analyze(ctx.raw_input)
    /\ ctx.caret = Len(ctx.analysis.segment)
    /\ ctx.raw_input = <<>> =>
          /\ ctx.analysis.segment = <<>>
          /\ ctx.caret = 0
          /\ ctx.confirm = 0
          /\ ctx.confirm_text = <<>>

\* Backspace emptied the raw_input of a context that held a confirmed text
C27_Witness ==
    /\ ev = Backspace
    /\ pre.confirm_text # <<>>
    /\ pre.confirm > 0
    /\ ctx.raw_input = <<>>
    /\ ctx = ContextDefault

\* C28: a Space or Select event that changes the context strictly increases
\* confirm or leaves the empty state; so in a run of selections without
\* edits at most len(segment) selections are accepted and at most one Commit
\* is emitted, and a selection event at confirm = caret changes nothing and
\* emits nothing
C28_SelectionAdvances ==
    /\ (ev \in SelectionEvents /\ ctx # pre) =>
          (ctx.confirm > pre.confirm \/ ctx = ContextDefault)
    /\ run.phase \in {"typing", "selecting", "committed"} =>
          /\ run.n <= Len(ctx.analysis.segment)
          /\ Len(run.emitted) <= 1
    /\ (ev \in SelectionEvents /\ pre.confirm = pre.caret) =>
          (ctx = pre /\ actions = <<>>)

\* one selection per token confirmed a segmentation of two tokens or more,
\* one Commit was emitted, and the selection event that followed did nothing
C28_Witness ==
    /\ ev \in SelectionEvents
    /\ pre.confirm = pre.caret
    /\ pre.caret >= 2
    /\ run.n = Len(ctx.analysis.segment)
    /\ Len(run.emitted) = 1
    /\ ctx = pre
    /\ actions = <<>>

====
